---- MODULE Spec2Model ----
(***************************************************************************)
(* Model of the two extractors of play-dead-zomboid/toolchain:             *)
(*   src/dynamic-item-crawl/Item-extractor.py      (prog = "items")        *)
(*   src/dynamic-recipe-crawl/recipe-extractor.py  (prog = "recipes")      *)
(*                                                                         *)
(* A Python str is a sequence of one-character strings, so that strip,     *)
(* lower, split, count and the regular expressions of _parse_slot are      *)
(* computed character by character.  A line of a file ends with "\n", as   *)
(* readlines() returns it.                                                 *)
(* A dict is a function from keys to values; a list is a sequence.         *)
(* Python's None is the value None below.                                  *)
(***************************************************************************)
EXTENDS Integers, Sequences, FiniteSets, TLC

VARIABLES
    prog,            \* which script runs: "items" or "recipes"
    files,           \* the list handed to the parser by discover_script_files
    pc,              \* position of the running script
    vocab,           \* property_vocabulary.json / recipe_vocab.json
    fidx,            \* index in `files` of the tuple the for loop is at
    lines,           \* lines of the open file
    i,               \* scan index (0-based, as in the source)
    current_module,
    items_found,
    local_errors,
    name,            \* item_name / recipe_name of the open block
    brace_depth,
    raw,             \* raw_props (items) / raw_lines (recipes) of the open block
    effective,       \* effective properties of the open block
    inputs, outputs, mappers,
    sub,             \* the nested section being read (recipes)
    records,         \* items / recipes
    errors,
    exported,        \* items_display_normalized.json / recipes_normalized.json
    raised           \* the exception that escaped, "" when none

vars == <<prog, files, pc, vocab, fidx, lines, i, current_module, items_found,
          local_errors, name, brace_depth, raw, effective, inputs, outputs,
          mappers, sub, records, errors, exported, raised>>

-----------------------------------------------------------------------------
(* Python values *)

None == <<"<None>">>

EmptyDict == [k \in {} |-> <<>>]

DictSet(d, k, v) == [x \in (DOMAIN d) \cup {k} |-> IF x = k THEN v ELSE d[x]]

-----------------------------------------------------------------------------
(* str methods *)

UpperChars == <<"A","B","C","D","E","F","G","H","I","J","K","L","M",
                "N","O","P","Q","R","S","T","U","V","W","X","Y","Z">>

LowerChars == <<"a","b","c","d","e","f","g","h","i","j","k","l","m",
                "n","o","p","q","r","s","t","u","v","w","x","y","z">>

Digits == {"0","1","2","3","4","5","6","7","8","9"}

UpperSet == {UpperChars[k] : k \in 1..Len(UpperChars)}

AlphaSet == UpperSet \cup {LowerChars[k] : k \in 1..Len(LowerChars)}

LowerOf == [c \in UpperSet |-> LowerChars[CHOOSE k \in 1..Len(UpperChars) : UpperChars[k] = c]]

IsAlpha(c) == c \in AlphaSet

LowerChar(c) == IF c \in UpperSet THEN LowerOf[c] ELSE c

Lower(s) == [k \in 1..Len(s) |-> LowerChar(s[k])]

IsSpace(c) == c \in {" ", "\t", "\n"}

LStrip(s) ==
    IF \A k \in 1..Len(s) : IsSpace(s[k]) THEN <<>>
    ELSE LET f == CHOOSE k \in 1..Len(s) :
                    ~IsSpace(s[k]) /\ \A m \in 1..(k-1) : IsSpace(s[m])
         IN  SubSeq(s, f, Len(s))

RStrip(s) ==
    IF \A k \in 1..Len(s) : IsSpace(s[k]) THEN <<>>
    ELSE LET l == CHOOSE k \in 1..Len(s) :
                    ~IsSpace(s[k]) /\ \A m \in (k+1)..Len(s) : IsSpace(s[m])
         IN  SubSeq(s, 1, l)

Strip(s) == LStrip(RStrip(s))

\* s.rstrip(c): every trailing c goes
RStripChar(s, c) ==
    IF \A k \in 1..Len(s) : s[k] = c THEN <<>>
    ELSE LET l == CHOOSE k \in 1..Len(s) :
                    s[k] # c /\ \A m \in (k+1)..Len(s) : s[m] = c
         IN  SubSeq(s, 1, l)

StartsWith(s, p) == Len(s) >= Len(p) /\ SubSeq(s, 1, Len(p)) = p

Count(s, c) == Cardinality({k \in 1..Len(s) : s[k] = c})

Contains(s, c) == \E k \in 1..Len(s) : s[k] = c

IndexOf(s, c) == CHOOSE k \in 1..Len(s) : s[k] = c /\ \A m \in 1..(k-1) : s[m] # c

\* s.split(c, 1) for a string that contains c: <<left, right>>
SplitOnce(s, c) ==
    <<SubSeq(s, 1, IndexOf(s, c) - 1), SubSeq(s, IndexOf(s, c) + 1, Len(s))>>

\* s.split(c): the pieces between the occurrences of c
RECURSIVE SplitChar(_, _)
SplitChar(s, c) ==
    IF ~Contains(s, c) THEN <<s>>
    ELSE <<SplitOnce(s, c)[1]>> \o SplitChar(SplitOnce(s, c)[2], c)

\* s.split(): the whitespace-separated words
RECURSIVE Words(_)
Words(s) ==
    LET t == LStrip(s) IN
    IF t = <<>> THEN <<>>
    ELSE IF \E k \in 1..Len(t) : IsSpace(t[k])
         THEN LET e == CHOOSE k \in 1..Len(t) :
                           IsSpace(t[k]) /\ \A m \in 1..(k-1) : ~IsSpace(t[m])
              IN  <<SubSeq(t, 1, e - 1)>> \o Words(SubSeq(t, e, Len(t)))
         ELSE <<t>>

\* s.isdigit()
IsDigitStr(s) == s # <<>> /\ \A k \in 1..Len(s) : s[k] \in Digits

\* s.replace(c, "", 1)
RemoveFirst(s, c) ==
    IF Contains(s, c)
    THEN SubSeq(s, 1, IndexOf(s, c) - 1) \o SubSeq(s, IndexOf(s, c) + 1, Len(s))
    ELSE s

Str(x) == IF x = None THEN <<"N","o","n","e">> ELSE x

-----------------------------------------------------------------------------
(* parse_items: the scan outside a block *)

KwModule == <<"m","o","d","u","l","e"," ">>

KwItem == <<"i","t","e","m"," ">>

KwComment == <<"/","/">>

OpenBrace == <<"{">>

CloseBrace == <<"}">>

\* the line at 0-based index k
LineAt(ls, k) == ls[k + 1]

\* lines 169-175: j after the blank and comment lines that follow index k
Trivial(l) == Strip(l) = <<>> \/ StartsWith(Strip(l), KwComment)

Lookahead(ls, j0) ==
    CHOOSE j \in j0..Len(ls) :
        /\ j = Len(ls) \/ ~Trivial(LineAt(ls, j))
        /\ \A m \in j0..(j-1) : Trivial(LineAt(ls, m))

IsModuleLine(l) == StartsWith(Lower(Strip(l)), KwModule)

IsItemLine(l) == StartsWith(Lower(Strip(l)), KwItem)

\* line 177: the header at index k is followed by its opening brace
ItemBraceFound(ls, k) ==
    /\ Lookahead(ls, k + 1) < Len(ls)
    /\ Strip(LineAt(ls, Lookahead(ls, k + 1))) = OpenBrace

\* ItemAccepted without the check of lines 181-183
ItemAcceptedWithoutModule(ls, k, module) ==
    /\ ItemBraceFound(ls, k)
    /\ Len(Words(Strip(LineAt(ls, k)))) >= 2

\* lines 177-188: the header at index k opens a block
ItemAccepted(ls, k, module) ==
    /\ ItemBraceFound(ls, k)
    /\ module # None
    /\ Len(Words(Strip(LineAt(ls, k)))) >= 2

\* f"{workshop_id}.{mod_id}.{current_module}.{name}"
Identity(f, module, n) ==
    Str(f.workshop_id) \o <<".">> \o Str(f.mod_id) \o <<".">> \o Str(module)
        \o <<".">> \o Str(n)

\* lines 206-208: key and value of a line of an item block that holds "="
ItemKey(stripped) == Strip(SplitOnce(stripped, "=")[1])

ItemValue(stripped) == Strip(RStripChar(SplitOnce(stripped, "=")[2], ","))

\* lines 205-213: the entry a block line adds to raw_props
RawProperty(text) ==
    LET stripped == Strip(text) IN
    IF Contains(stripped, "=")
    THEN <<[key |-> ItemKey(stripped), value |-> ItemValue(stripped),
            original_line |-> RStrip(text)]>>
    ELSE IF stripped # <<>>
         THEN <<[key |-> None, value |-> None, original_line |-> RStrip(text)]>>
         ELSE <<>>

\* line 210
ItemEffective(eff, text) ==
    LET stripped == Strip(text) IN
    IF Contains(stripped, "=")
    THEN DictSet(eff, Lower(ItemKey(stripped)), ItemValue(stripped))
    ELSE eff

\* lines 202-203, 209-210
DepthAfter(depth, text) ==
    depth + Count(Strip(text), "{") - Count(Strip(text), "}")

ItemDefinition(f, module, n, props, eff) ==
    [identity |-> Identity(f, module, n), workshop_id |-> f.workshop_id,
     mod_id |-> f.mod_id, module |-> module, name |-> n, file_path |-> f.path,
     source_root |-> f.source_root, raw_properties |-> props,
     effective_properties |-> eff]

ParseError(path, module, n, message) ==
    [file_path |-> path, module |-> module, name |-> n, message |-> message]

-----------------------------------------------------------------------------
(* float(s) of a string of digits with at most one ".": num / 10^scale, with *)
(* no trailing zero in the fraction, so that "2", "2.0" and "02" are equal   *)

DigitString == <<"0","1","2","3","4","5","6","7","8","9">>

DigitVal(c) == (CHOOSE k \in 1..10 : DigitString[k] = c) - 1

RECURSIVE IntOf(_)
IntOf(s) ==
    IF s = <<>> THEN 0
    ELSE 10 * IntOf(SubSeq(s, 1, Len(s) - 1)) + DigitVal(s[Len(s)])

Number(num, scale) == [tag |-> "Number", num |-> num, scale |-> scale]

\* float(s) raises ValueError unless this holds (s holds digits and "." only)
FloatParses(s) == Count(s, ".") <= 1 /\ \E k \in 1..Len(s) : s[k] \in Digits

Float(s) ==
    LET whole == IF Contains(s, ".") THEN SplitOnce(s, ".")[1] ELSE s
        frac  == IF Contains(s, ".") THEN RStripChar(SplitOnce(s, ".")[2], "0") ELSE <<>>
    IN  Number(IntOf(whole \o frac), Len(frac))

-----------------------------------------------------------------------------
(* _parse_slot: the regular expressions, as leftmost matches *)

IsCountChar(c) == c \in Digits \/ c = "."

\* [A-Za-z0-9_.:]
IsItemIdChar(c) == IsAlpha(c) \/ c \in Digits \/ c \in {"_", ".", ":"}

\* [A-Za-z0-9_]
IsNameChar(c) == IsAlpha(c) \/ c \in Digits \/ c = "_"

NotCloseBracket(c) == c # "]"

LitAt(s, p, lit) == p + Len(lit) - 1 <= Len(s) /\ SubSeq(s, p, p + Len(lit) - 1) = lit

\* the number of characters from position p on that are all in class C
RunLen(s, p, C(_)) ==
    Cardinality({e \in p..Len(s) : \A m \in p..e : C(s[m])})

Min(S) == CHOOSE x \in S : \A y \in S : x <= y

KwSlot == <<"i","t","e","m">>

\* line 119
split_list(value) ==
    LET pieces == SplitChar(value, ";")
        kept == SelectSeq(pieces, LAMBDA v : Strip(v) # <<>>)
    IN  [k \in 1..Len(kept) |-> Lower(Strip(kept[k]))]

\* line 125: item\s+([\d.]+), ignoring case; the positions where it matches
CountMatches(line) ==
    {p \in 1..Len(line) :
        /\ LitAt(Lower(line), p, KwSlot)
        /\ RunLen(line, p + 4, IsSpace) >= 1
        /\ RunLen(line, p + 4 + RunLen(line, p + 4, IsSpace), IsCountChar) >= 1}

CountGroup(line) ==
    LET p == Min(CountMatches(line))
        d == p + 4 + RunLen(line, p + 4, IsSpace)
    IN  SubSeq(line, d, d + RunLen(line, d, IsCountChar) - 1)

\* line 126 raises ValueError on a count such as "1.2.3" or "."
SlotRaises(line) == CountMatches(line) # {} /\ ~FloatParses(CountGroup(line))

SlotCount(line) ==
    IF CountMatches(line) # {} THEN Float(CountGroup(line)) ELSE Number(1, 0)

\* line 132: \[([^\]]+)\], the first bracket pair with something inside
BracketMatches(line) ==
    {p \in 1..Len(line) :
        /\ line[p] = "["
        /\ RunLen(line, p + 1, NotCloseBracket) >= 1
        /\ p + 1 + RunLen(line, p + 1, NotCloseBracket) <= Len(line)}

BracketGroup(line, p) == SubSeq(line, p + 1, p + RunLen(line, p + 1, NotCloseBracket))

\* line 136: item\s+[\d.]+\s+([A-Za-z0-9_.:]+), case-sensitive
DirectMatches(line) ==
    {p \in 1..Len(line) :
        /\ LitAt(line, p, KwSlot)
        /\ LET a == p + 4
               b == a + RunLen(line, a, IsSpace)
               c == b + RunLen(line, b, IsCountChar)
               d == c + RunLen(line, c, IsSpace)
           IN  b > a /\ c > b /\ d > c /\ RunLen(line, d, IsItemIdChar) >= 1}

DirectGroup(line) ==
    LET p == Min(DirectMatches(line))
        a == p + 4
        b == a + RunLen(line, a, IsSpace)
        c == b + RunLen(line, b, IsCountChar)
        d == c + RunLen(line, c, IsSpace)
    IN  SubSeq(line, d, d + RunLen(line, d, IsItemIdChar) - 1)

\* lines 132-138
SlotItems(line) ==
    IF BracketMatches(line) # {}
    THEN split_list(BracketGroup(line, Min(BracketMatches(line))))
    ELSE IF DirectMatches(line) # {}
         THEN <<Lower(DirectGroup(line))>>
         ELSE <<>>

\* lines 140, 144: kw\[(.*?)\], ignoring case; "." matches no newline
NotBracketNorNewline(c) == c # "]" /\ c # "\n"

KeywordListMatches(line, kw) ==
    {p \in 1..Len(line) :
        /\ LitAt(Lower(line), p, kw)
        /\ LET a == p + Len(kw) + RunLen(line, p + Len(kw), NotBracketNorNewline)
           IN  a <= Len(line) /\ line[a] = "]"}

KeywordList(line, kw) ==
    IF KeywordListMatches(line, kw) = {} THEN <<>>
    ELSE LET p == Min(KeywordListMatches(line, kw))
             a == p + Len(kw)
         IN  split_list(SubSeq(line, a, a + RunLen(line, a, NotBracketNorNewline) - 1))

KwTags == <<"t","a","g","s","[">>

KwFlags == <<"f","l","a","g","s","[">>

\* lines 148-154: mappers?\[([^\]]+)\]|mapper:([A-Za-z0-9_]+), ignoring case
KwMapper == <<"m","a","p","p","e","r">>

MapperBracketAt(line, p) ==
    /\ LitAt(Lower(line), p, KwMapper)
    /\ LET a == IF LitAt(Lower(line), p + 6, <<"s">>) THEN p + 7 ELSE p + 6
       IN  /\ LitAt(line, a, <<"[">>)
           /\ RunLen(line, a + 1, NotCloseBracket) >= 1
           /\ a + 1 + RunLen(line, a + 1, NotCloseBracket) <= Len(line)

MapperColonAt(line, p) ==
    /\ LitAt(Lower(line), p, KwMapper \o <<":">>)
    /\ RunLen(line, p + 7, IsNameChar) >= 1

MapperMatches(line) ==
    {p \in 1..Len(line) : MapperBracketAt(line, p) \/ MapperColonAt(line, p)}

SlotMapper(line) ==
    IF MapperMatches(line) = {} THEN None
    ELSE LET p == Min(MapperMatches(line)) IN
         IF MapperBracketAt(line, p)
         THEN LET a == IF LitAt(Lower(line), p + 6, <<"s">>) THEN p + 7 ELSE p + 6
              IN  Lower(BracketGroup(line, a))
         ELSE Lower(SubSeq(line, p + 7, p + 6 + RunLen(line, p + 7, IsNameChar)))

\* lines 156-158: mode:([A-Za-z]+), ignoring case
KwMode == <<"m","o","d","e",":">>

ModeMatches(line) ==
    {p \in 1..Len(line) :
        LitAt(Lower(line), p, KwMode) /\ RunLen(line, p + 5, IsAlpha) >= 1}

SlotMode(line) ==
    IF ModeMatches(line) = {} THEN None
    ELSE LET p == Min(ModeMatches(line))
         IN  Lower(SubSeq(line, p + 5, p + 4 + RunLen(line, p + 5, IsAlpha)))

\* lines 122-160
parse_slot(line) ==
    [count |-> SlotCount(line), items |-> SlotItems(line),
     tags |-> KeywordList(line, KwTags), flags |-> KeywordList(line, KwFlags),
     mapper |-> SlotMapper(line), mode |-> SlotMode(line),
     raw |-> RStripChar(RStrip(line), ",")]

-----------------------------------------------------------------------------
(* parse_recipes *)

KwRecipe == <<"c","r","a","f","t","r","e","c","i","p","e"," ">>

KwInputs == <<"i","n","p","u","t","s">>

KwOutputs == <<"o","u","t","p","u","t","s">>

KwItemMapper == <<"i","t","e","m","m","a","p","p","e","r"," ">>

BASE == <<"B","A","S","E">>

IsRecipeLine(l) == StartsWith(Lower(Strip(l)), KwRecipe)

\* line 171
SkippedByRecipes(f) ==
    f.workshop_id # BASE /\ ~StartsWith(Lower(f.source_root), <<"4","2">>)

\* RecipeBraceFound with the lookahead of the item parser
RecipeBraceFoundLenient(ls, k) == ItemBraceFound(ls, k)

\* line 195: the header at index k has its brace on the next line
RecipeBraceFound(ls, k) == k + 1 < Len(ls) /\ Strip(LineAt(ls, k + 1)) = OpenBrace

\* lines 212-214
IsRecipeProperty(stripped, depth) == Contains(stripped, "=") /\ depth = 1

RecipeKey(stripped) == Lower(Strip(SplitOnce(stripped, "=")[1]))

RecipeValue(stripped) == Lower(Strip(RStripChar(SplitOnce(stripped, "=")[2], ",")))

NoSub == [kind |-> "none", name |-> None, mappings |-> EmptyDict, raw_map |-> <<>>]

\* lines 216, 223, 230: the nested section a block line opens, if any
SubOpened(stripped) ==
    IF Lower(stripped) = KwInputs THEN [NoSub EXCEPT !.kind = "inputs"]
    ELSE IF Lower(stripped) = KwOutputs THEN [NoSub EXCEPT !.kind = "outputs"]
    ELSE IF StartsWith(Lower(stripped), KwItemMapper)
         THEN [NoSub EXCEPT !.kind = "itemmapper", !.name = Lower(Words(stripped)[2])]
         ELSE NoSub

\* lines 219, 226
IsSlotLine(l) == StartsWith(Lower(Strip(l)), KwSlot)

\* lines 235-238: a line of an itemmapper section
MapperLine(m, l) ==
    [m EXCEPT !.raw_map = Append(@, RStrip(l)),
              !.mappings = IF Contains(l, "=")
                           THEN DictSet(@, Lower(Strip(SplitOnce(l, "=")[1])),
                                        Lower(Strip(RStripChar(SplitOnce(l, "=")[2], ","))))
                           ELSE @]

ItemMapper(m) == [name |-> m.name, mappings |-> m.mappings, raw_lines |-> m.raw_map]

RecipeDefinition(f, module, n, rawl, eff, ins, outs, maps) ==
    [identity |-> Identity(f, module, n), workshop_id |-> f.workshop_id,
     mod_id |-> f.mod_id, module |-> module, name |-> n, file_path |-> f.path,
     source_root |-> f.source_root, raw_lines |-> rawl,
     effective_properties |-> eff, inputs |-> ins, outputs |-> outs,
     item_mappers |-> maps]

-----------------------------------------------------------------------------
(* Vocabulary and export *)

Tally(d, token) == DictSet(d, token, (IF token \in DOMAIN d THEN d[token] ELSE 0) + 1)

RECURSIVE TallyAll(_, _)
TallyAll(d, tokens) ==
    IF tokens = <<>> THEN d ELSE TallyAll(Tally(d, Head(tokens)), Tail(tokens))

RECURSIVE Flatten(_)
Flatten(ss) == IF ss = <<>> THEN <<>> ELSE Head(ss) \o Flatten(Tail(ss))

\* Item-extractor.py lines 122-127: the keys one file adds to the vocabulary
VocabularyKeys(f) ==
    IF ~f.readable THEN <<>>
    ELSE LET counted == SelectSeq(f.content,
                 LAMBDA l : /\ Contains(Strip(l), "=")
                            /\ ~StartsWith(Strip(l), KwComment)
                            /\ Lower(Strip(SplitOnce(Strip(l), "=")[1])) # <<>>)
         IN  [k \in 1..Len(counted) |-> Lower(Strip(SplitOnce(Strip(counted[k]), "=")[1]))]

\* Item-extractor.py lines 116-131
discover_property_vocabulary(fs) ==
    TallyAll(EmptyDict, Flatten([k \in 1..Len(fs) |-> VocabularyKeys(fs[k])]))

\* Item-extractor.py lines 332-361
normalize_value(value) ==
    LET r == Strip(value) IN
    IF IsDigitStr(RemoveFirst(r, ".")) THEN Float(r)
    ELSE IF Contains(r, ";")
         THEN [tag |-> "StringList", list |-> split_list(r)]
         ELSE [tag |-> "Text", text |-> Lower(r)]

\* Item-extractor.py lines 305-322, 364-395
NormalizedItem(item) ==
    [identity |-> item.identity, name |-> item.name, file_path |-> item.file_path,
     properties |-> [k \in DOMAIN item.effective_properties |->
                        normalize_value(item.effective_properties[k])]]

\* recipe-extractor.py lines 263-272, for the str values of effective_properties
normalize_value_recipes(val) ==
    IF IsDigitStr(RemoveFirst(val, ".")) THEN Float(val)
    ELSE [tag |-> "Text", text |-> Lower(val)]

ExportedSlot(sl) ==
    [count |-> sl.count, items |-> sl.items, tags |-> sl.tags, flags |-> sl.flags,
     mapper |-> sl.mapper, mode |-> sl.mode]

\* recipe-extractor.py lines 289-327
NormalizedRecipe(r) ==
    [identity |-> r.identity, name |-> Lower(r.name), module |-> Lower(r.module),
     properties |-> [k \in DOMAIN r.effective_properties |->
                        normalize_value_recipes(r.effective_properties[k])],
     inputs |-> [k \in 1..Len(r.inputs) |-> ExportedSlot(r.inputs[k])],
     outputs |-> [k \in 1..Len(r.outputs) |-> ExportedSlot(r.outputs[k])],
     item_mappers |-> [k \in 1..Len(r.item_mappers) |->
                        [name |-> r.item_mappers[k].name,
                         mappings |-> r.item_mappers[k].mappings]]]

\* recipe-extractor.py lines 341-352: the tokens the slots and mappers add
Slots(rs) == Flatten([k \in 1..Len(rs) |-> rs[k].inputs \o rs[k].outputs])

VocabTokens(rs, category) ==
    CASE category = "items" ->
            Flatten([k \in 1..Len(Slots(rs)) |-> Slots(rs)[k].items])
      [] category = "tags" ->
            Flatten([k \in 1..Len(Slots(rs)) |-> Slots(rs)[k].tags])
      [] category = "flags" ->
            Flatten([k \in 1..Len(Slots(rs)) |-> Slots(rs)[k].flags])
      [] category = "mappers" ->
            Flatten([k \in 1..Len(Slots(rs)) |->
                IF Slots(rs)[k].mapper # None /\ Slots(rs)[k].mapper # <<>>
                THEN <<Slots(rs)[k].mapper>> ELSE <<>>])
      [] category = "item_mappers" ->
            Flatten([k \in 1..Len(rs) |->
                [m \in 1..Len(rs[k].item_mappers) |-> rs[k].item_mappers[m].name]])

\* recipe-extractor.py lines 338-339: one count per key of each recipe's dict
PropertyTally(rs) ==
    [t \in UNION {DOMAIN rs[k].effective_properties : k \in 1..Len(rs)} |->
        Cardinality({k \in 1..Len(rs) : t \in DOMAIN rs[k].effective_properties})]

SlotCategories == {"items", "tags", "flags", "mappers", "item_mappers"}

\* recipe-extractor.py lines 334-354
build_vocab(rs) ==
    LET touched == {c \in SlotCategories : VocabTokens(rs, c) # <<>>}
                   \cup (IF DOMAIN PropertyTally(rs) # {} THEN {"properties"} ELSE {})
    IN  [c \in touched |-> IF c = "properties" THEN PropertyTally(rs)
                           ELSE TallyAll(EmptyDict, VocabTokens(rs, c))]

-----------------------------------------------------------------------------
(* The inputs: script files built from a few lines of the dialect *)

NL == <<"\n">>

L_moduleM == <<"m","o","d","u","l","e"," ","M">> \o NL

L_moduleN == <<"M","o","d","u","l","e"," ","N">> \o NL

L_item == <<"i","t","e","m"," ","A">> \o NL

L_recipe == <<"c","r","a","f","t","r","e","c","i","p","e"," ","R">> \o NL

L_open == <<" ","{">> \o NL

L_close == <<" ","}">> \o NL

L_close2 == <<"}","}">> \o NL

L_blank == NL

L_comment == <<"/","/"," ","c","=","d">> \o NL

L_prop == <<" ","K","e"," ","="," ","a",";","B",",",",">> \o NL

L_nokey == <<"="," ","x",",">> \o NL

L_inputs == <<"i","n","p","u","t","s">> \o NL

L_outputs == <<"O","u","t","p","u","t","s">> \o NL

L_mapper == <<"i","t","e","m","m","a","p","p","e","r"," ","P">> \o NL

L_mapline == <<"c"," ","="," ","B",".","x",",">> \o NL

\* the slot of the specification's scenario
L_slot == <<" ","i","t","e","m"," ","2"," ","[","b",".","H",";","b",".","N","]",
            " ","t","a","g","s","[","t","o","o","l","]"," ",
            "m","o","d","e",":","C","r","a","f","t",",">> \o NL

\* a slot with tags and no item list
L_slotTags == <<"i","t","e","m"," ","1"," ","t","a","g","s","[","T",";","u","]",
                " ","f","l","a","g","s","[","f","]",",">> \o NL

\* a slot with a single item
L_slotOne == <<"i","t","e","m"," ","1"," ","b",".","N",",">> \o NL

ItemChunks ==
    { <<L_moduleN>>, <<L_item>>, <<L_open>>, <<L_close>>, <<L_close2>>,
      <<L_blank, L_comment>>, <<L_prop>>, <<L_nokey>> }

RecipeChunks ==
    { <<L_moduleN>>, <<L_recipe>>, <<L_open>>, <<L_close>>,
      <<L_blank, L_comment>>, <<L_prop>>, <<L_inputs>>,
      <<L_inputs, L_open, L_slot, L_slotOne, L_close>>,
      <<L_outputs, L_open, L_slotTags, L_close, L_mapper, L_open, L_mapline, L_close>> }

MaxChunks == 3

RECURSIVE ChunkSeqs(_, _)
ChunkSeqs(n, C) ==
    IF n = 0 THEN {<<>>}
    ELSE LET P == ChunkSeqs(n - 1, C) IN P \cup {p \o c : p \in P, c \in C}

\* a script file: with or without a leading module line, then up to MaxChunks chunks
Contents(p) ==
    LET C == IF p = "items" THEN ItemChunks ELSE RecipeChunks IN
    {pre \o body : pre \in {<<>>, <<L_moduleM>>}, body \in ChunkSeqs(MaxChunks, C)}

FileTuple(w, m, root, path, readable, content) ==
    [workshop_id |-> w, mod_id |-> m, source_root |-> root, path |-> path,
     readable |-> readable, content |-> content]

\* lines 66-69 (items), 84 (recipes): a script of the base game
BaseFile(content) ==
    FileTuple(BASE, <<"B","a","s","e","G","a","m","e">>, <<"b","a","s","e">>,
              "base.txt", TRUE, content)

\* lines 106-108 (items), 109 (recipes): scripts of workshop mods
UnreadableFile ==
    FileTuple(<<"7","1">>, <<"m","o","d","A">>, <<"4","2",".","1">>, "a.txt", FALSE, <<>>)

UnknownRootFile ==
    FileTuple(<<"7","2">>, <<"m","o","d","B">>, <<"u","n","k","n","o","w","n">>,
              "b.txt", TRUE, <<L_moduleM>>)

\* lines 88-91, 106-108 (items), 97-99, 109 (recipes): two mods whose directory
\* names hold a ".": workshop 7 with mod 1.x under 42.1, workshop 7.1 with mod x;
\* the script of the first holds two blocks, the first of them with a property
\* nested one level deeper
DottedModFile(p) ==
    LET header == IF p = "items" THEN L_item ELSE L_recipe IN
    FileTuple(<<"7">>, <<"1",".","x">>, <<"4","2",".","1">>, "c.txt", TRUE,
              <<L_moduleN, header, L_open, L_open, L_prop, L_close, L_close,
                header, L_open, L_close>>)

DottedWorkshopFile(content) ==
    FileTuple(<<"7",".","1">>, <<"x">>, <<"u","n","k","n","o","w","n">>,
              "d.txt", TRUE, content)

FileLists(p) ==
    {<<BaseFile(c)>> : c \in Contents(p)}
    \cup {<<UnreadableFile, UnknownRootFile, BaseFile(c)>> : c \in Contents(p)}
    \cup {<<DottedModFile(p), DottedWorkshopFile(c)>> : c \in Contents(p)}

-----------------------------------------------------------------------------
(* The scripts as state machines *)

Init ==
    /\ prog \in {"items", "recipes"}
    /\ files \in FileLists(prog)
    /\ pc = IF prog = "items" THEN "vocab" ELSE "files"
    /\ vocab = EmptyDict
    /\ fidx = 1
    /\ lines = <<>>
    /\ i = 0
    /\ current_module = None
    /\ items_found = 0
    /\ local_errors = <<>>
    /\ name = None
    /\ brace_depth = 0
    /\ raw = <<>>
    /\ effective = EmptyDict
    /\ inputs = <<>>
    /\ outputs = <<>>
    /\ mappers = <<>>
    /\ sub = NoSub
    /\ records = <<>>
    /\ errors = <<>>
    /\ exported = <<>>
    /\ raised = ""

block_vars == <<name, brace_depth, raw, effective, inputs, outputs, mappers, sub>>

out_vars == <<records, errors, exported, raised, vocab>>

file_vars == <<fidx, lines, current_module, items_found, local_errors>>

\* Item-extractor.py main, line 459
Vocabulary ==
    /\ pc = "vocab"
    /\ vocab' = discover_property_vocabulary(files)
    /\ pc' = "files"
    /\ UNCHANGED <<prog, files, i, records, errors, exported, raised>>
    /\ UNCHANGED <<file_vars, block_vars>>

\* recipe-extractor.py lines 171-172
SkipFile ==
    /\ pc = "files" /\ fidx <= Len(files)
    /\ prog = "recipes" /\ SkippedByRecipes(files[fidx])
    /\ fidx' = fidx + 1
    /\ UNCHANGED <<prog, files, pc, i, lines, current_module, items_found, local_errors>>
    /\ UNCHANGED <<block_vars, out_vars>>

\* Item-extractor.py lines 146-148, recipe-extractor.py lines 177-179
ReadError ==
    /\ pc = "files" /\ fidx <= Len(files)
    /\ prog = "recipes" => ~SkippedByRecipes(files[fidx])
    /\ ~files[fidx].readable
    /\ errors' = Append(errors, ParseError(files[fidx].path, None, None,
                    IF prog = "items" THEN "File read error: IOError" ELSE "IOError"))
    /\ fidx' = fidx + 1
    /\ UNCHANGED <<prog, files, pc, i, lines, current_module, items_found, local_errors>>
    /\ UNCHANGED <<block_vars, records, exported, raised, vocab>>

\* OpenFile without the reset of lines 150 (items) and 181 (recipes)
OpenFileKeepingModule ==
    /\ pc = "files" /\ fidx <= Len(files)
    /\ prog = "recipes" => ~SkippedByRecipes(files[fidx])
    /\ files[fidx].readable
    /\ lines' = files[fidx].content
    /\ i' = 0
    /\ items_found' = 0
    /\ local_errors' = <<>>
    /\ pc' = "outer"
    /\ UNCHANGED <<prog, files, fidx, current_module>>
    /\ UNCHANGED <<block_vars, out_vars>>

\* Item-extractor.py lines 143-153, recipe-extractor.py lines 174-182
OpenFile ==
    /\ pc = "files" /\ fidx <= Len(files)
    /\ prog = "recipes" => ~SkippedByRecipes(files[fidx])
    /\ files[fidx].readable
    /\ lines' = files[fidx].content
    /\ current_module' = None
    /\ i' = 0
    /\ items_found' = 0
    /\ local_errors' = <<>>
    /\ pc' = "outer"
    /\ UNCHANGED <<prog, files, fidx>>
    /\ UNCHANGED <<block_vars, out_vars>>

\* Item-extractor.py lines 155, 236-238, recipe-extractor.py line 184: the file is done
EndOfFile ==
    /\ pc = "outer" /\ i >= Len(lines)
    /\ errors' = IF prog = "items" /\ items_found > 0 THEN errors \o local_errors
                 ELSE errors
    /\ fidx' = fidx + 1
    /\ pc' = "files"
    /\ UNCHANGED <<prog, files, i, lines, current_module, items_found, local_errors>>
    /\ UNCHANGED <<block_vars, records, exported, raised, vocab>>

\* Item-extractor.py line 240, recipe-extractor.py line 256
Return ==
    /\ pc = "files" /\ fidx > Len(files)
    /\ pc' = "returned"
    /\ UNCHANGED <<prog, files, i>>
    /\ UNCHANGED <<file_vars, block_vars, out_vars>>

\* Item-extractor.py lines 159-164, recipe-extractor.py lines 187-190
ModuleLine ==
    /\ pc = "outer" /\ i < Len(lines)
    /\ IsModuleLine(LineAt(lines, i))
    /\ LET parts == Words(Strip(LineAt(lines, i))) IN
       IF Len(parts) >= 2
       THEN /\ current_module' = parts[2]
            /\ i' = i + 1
            /\ UNCHANGED <<pc, raised>>
       ELSE IF prog = "items"
            THEN /\ i' = i + 1
                 /\ UNCHANGED <<pc, raised, current_module>>
            ELSE /\ raised' = "IndexError"
                 /\ pc' = "crashed"
                 /\ UNCHANGED <<i, current_module>>
    /\ UNCHANGED <<prog, files, fidx, lines, items_found, local_errors>>
    /\ UNCHANGED <<block_vars, records, errors, exported, vocab>>

\* Item-extractor.py line 234, recipe-extractor.py line 254
OtherLine ==
    /\ pc = "outer" /\ i < Len(lines)
    /\ ~IsModuleLine(LineAt(lines, i))
    /\ prog = "items" => ~IsItemLine(LineAt(lines, i))
    /\ prog = "recipes" => ~IsRecipeLine(LineAt(lines, i))
    /\ i' = i + 1
    /\ UNCHANGED <<prog, files, pc>>
    /\ UNCHANGED <<file_vars, block_vars, out_vars>>

\* Item-extractor.py lines 167-188: the header is abandoned
ItemAbandoned ==
    /\ prog = "items" /\ pc = "outer" /\ i < Len(lines)
    /\ ~IsModuleLine(LineAt(lines, i))
    /\ IsItemLine(LineAt(lines, i))
    /\ ~ItemAccepted(lines, i, current_module)
    /\ i' = i + 1
    /\ UNCHANGED <<prog, files, pc>>
    /\ UNCHANGED <<file_vars, block_vars, out_vars>>

\* Item-extractor.py lines 167-196: the header opens a block
ItemOpened ==
    /\ prog = "items" /\ pc = "outer" /\ i < Len(lines)
    /\ ~IsModuleLine(LineAt(lines, i))
    /\ IsItemLine(LineAt(lines, i))
    /\ ItemAccepted(lines, i, current_module)
    /\ name' = Words(Strip(LineAt(lines, i)))[2]
    /\ raw' = <<>>
    /\ effective' = EmptyDict
    /\ i' = Lookahead(lines, i + 1) + 1
    /\ brace_depth' = 1
    /\ pc' = "block"
    /\ UNCHANGED <<prog, files, inputs, outputs, mappers, sub>>
    /\ UNCHANGED <<file_vars, out_vars>>

\* ItemBlockLine without the step i += 1 of line 215
ItemBlockLineInPlace ==
    /\ prog = "items" /\ pc = "block"
    /\ i < Len(lines) /\ brace_depth > 0
    /\ brace_depth' = DepthAfter(brace_depth, LineAt(lines, i))
    /\ raw' = raw \o RawProperty(LineAt(lines, i))
    /\ effective' = ItemEffective(effective, LineAt(lines, i))
    /\ UNCHANGED <<prog, files, pc, i, name, inputs, outputs, mappers, sub>>
    /\ UNCHANGED <<file_vars, out_vars>>

\* Item-extractor.py lines 198-215: one line of the block
ItemBlockLine ==
    /\ prog = "items" /\ pc = "block"
    /\ i < Len(lines) /\ brace_depth > 0
    /\ brace_depth' = DepthAfter(brace_depth, LineAt(lines, i))
    /\ raw' = raw \o RawProperty(LineAt(lines, i))
    /\ effective' = ItemEffective(effective, LineAt(lines, i))
    /\ i' = i + 1
    /\ UNCHANGED <<prog, files, pc, name, inputs, outputs, mappers, sub>>
    /\ UNCHANGED <<file_vars, out_vars>>

\* Item-extractor.py lines 198, 217-232: the block loop ends and the item is appended
EmitItem ==
    /\ prog = "items" /\ pc = "block"
    /\ ~(i < Len(lines) /\ brace_depth > 0)
    /\ records' = Append(records,
            ItemDefinition(files[fidx], current_module, name, raw, effective))
    /\ items_found' = items_found + 1
    /\ pc' = "outer"
    /\ UNCHANGED <<prog, files, i, fidx, lines, current_module, local_errors>>
    /\ UNCHANGED <<block_vars, errors, exported, raised, vocab>>

\* recipe-extractor.py lines 192-198
RecipeRejected ==
    /\ prog = "recipes" /\ pc = "outer" /\ i < Len(lines)
    /\ ~IsModuleLine(LineAt(lines, i))
    /\ IsRecipeLine(LineAt(lines, i))
    /\ ~RecipeBraceFound(lines, i)
    /\ errors' = Append(errors, ParseError(files[fidx].path, current_module,
                    Words(Strip(LineAt(lines, i)))[2], "Missing opening brace"))
    /\ i' = i + 1
    /\ UNCHANGED <<prog, files, pc>>
    /\ UNCHANGED <<file_vars, block_vars, records, exported, raised, vocab>>

\* recipe-extractor.py lines 192-202
RecipeOpened ==
    /\ prog = "recipes" /\ pc = "outer" /\ i < Len(lines)
    /\ ~IsModuleLine(LineAt(lines, i))
    /\ IsRecipeLine(LineAt(lines, i))
    /\ RecipeBraceFound(lines, i)
    /\ name' = Words(Strip(LineAt(lines, i)))[2]
    /\ raw' = <<>>
    /\ effective' = EmptyDict
    /\ inputs' = <<>>
    /\ outputs' = <<>>
    /\ mappers' = <<>>
    /\ brace_depth' = 1
    /\ i' = i + 2
    /\ pc' = "block"
    /\ UNCHANGED <<prog, files, sub>>
    /\ UNCHANGED <<file_vars, out_vars>>

\* recipe-extractor.py lines 204-217, 223-224, 230-233, 242: one line of the block;
\* a section header hands over to the section loop two lines further on
RecipeBlockLine ==
    /\ prog = "recipes" /\ pc = "block"
    /\ i < Len(lines) /\ brace_depth > 0
    /\ LET stripped == Strip(RStrip(LineAt(lines, i)))
           depth == DepthAfter(brace_depth, LineAt(lines, i))
       IN  /\ raw' = Append(raw, RStrip(LineAt(lines, i)))
           /\ brace_depth' = depth
           /\ IF IsRecipeProperty(stripped, depth)
              THEN /\ effective' = DictSet(effective, RecipeKey(stripped),
                                           RecipeValue(stripped))
                   /\ i' = i + 1
                   /\ UNCHANGED <<pc, sub>>
              ELSE IF SubOpened(stripped).kind # "none"
                   THEN /\ sub' = SubOpened(stripped)
                        /\ i' = i + 2
                        /\ pc' = "sub"
                        /\ UNCHANGED effective
                   ELSE /\ i' = i + 1
                        /\ UNCHANGED <<pc, sub, effective>>
    /\ UNCHANGED <<prog, files, name, inputs, outputs, mappers>>
    /\ UNCHANGED <<file_vars, out_vars>>

\* recipe-extractor.py lines 218-221, 225-228, 234-239: one line of a section
SubLine ==
    /\ prog = "recipes" /\ pc = "sub"
    /\ i < Len(lines) /\ Strip(LineAt(lines, i)) # CloseBrace
    /\ LET l == LineAt(lines, i) IN
       IF sub.kind # "itemmapper" /\ IsSlotLine(l) /\ SlotRaises(l)
       THEN /\ raised' = "ValueError"
            /\ pc' = "crashed"
            /\ UNCHANGED <<i, inputs, outputs, sub>>
       ELSE /\ inputs' = IF sub.kind = "inputs" /\ IsSlotLine(l)
                         THEN Append(inputs, parse_slot(l)) ELSE inputs
            /\ outputs' = IF sub.kind = "outputs" /\ IsSlotLine(l)
                          THEN Append(outputs, parse_slot(l)) ELSE outputs
            /\ sub' = IF sub.kind = "itemmapper" THEN MapperLine(sub, l) ELSE sub
            /\ i' = i + 1
            /\ UNCHANGED <<pc, raised>>
    /\ UNCHANGED <<prog, files, name, brace_depth, raw, effective, mappers>>
    /\ UNCHANGED <<file_vars, records, errors, exported, vocab>>

\* SubClose without the step of line 242 past the closing brace of the section
SubCloseLeavingBrace ==
    /\ prog = "recipes" /\ pc = "sub"
    /\ i < Len(lines) /\ Strip(LineAt(lines, i)) = CloseBrace
    /\ mappers' = IF sub.kind = "itemmapper" THEN Append(mappers, ItemMapper(sub))
                  ELSE mappers
    /\ pc' = "block"
    /\ UNCHANGED <<prog, files, i, name, brace_depth, raw, effective, inputs, outputs, sub>>
    /\ UNCHANGED <<file_vars, out_vars>>

\* recipe-extractor.py lines 218, 225, 234, 240, 242: the section's closing brace
SubClose ==
    /\ prog = "recipes" /\ pc = "sub"
    /\ i < Len(lines) /\ Strip(LineAt(lines, i)) = CloseBrace
    /\ mappers' = IF sub.kind = "itemmapper" THEN Append(mappers, ItemMapper(sub))
                  ELSE mappers
    /\ i' = i + 1
    /\ pc' = "block"
    /\ UNCHANGED <<prog, files, name, brace_depth, raw, effective, inputs, outputs, sub>>
    /\ UNCHANGED <<file_vars, out_vars>>

\* recipe-extractor.py lines 218, 225, 234: lines[i] past the last line
SubIndexError ==
    /\ prog = "recipes" /\ pc = "sub"
    /\ i >= Len(lines)
    /\ raised' = "IndexError"
    /\ pc' = "crashed"
    /\ UNCHANGED <<prog, files, i, records, errors, exported, vocab>>
    /\ UNCHANGED <<file_vars, block_vars>>

\* recipe-extractor.py lines 204, 244-252
EmitRecipe ==
    /\ prog = "recipes" /\ pc = "block"
    /\ ~(i < Len(lines) /\ brace_depth > 0)
    /\ records' = Append(records,
            RecipeDefinition(files[fidx], current_module, name, raw, effective,
                             inputs, outputs, mappers))
    /\ pc' = "outer"
    /\ UNCHANGED <<prog, files, i>>
    /\ UNCHANGED <<file_vars, block_vars, errors, exported, raised, vocab>>

\* Item-extractor.py main, lines 463-465
ExportItems ==
    /\ prog = "items" /\ pc = "returned"
    /\ exported' = [k \in 1..Len(records) |-> NormalizedItem(records[k])]
    /\ pc' = "done"
    /\ UNCHANGED <<prog, files, i, records, errors, raised, vocab>>
    /\ UNCHANGED <<file_vars, block_vars>>

\* recipe-extractor.py main, lines 412-413; line 294 raises on a module of None
ExportRecipes ==
    /\ prog = "recipes" /\ pc = "returned"
    /\ IF \E k \in 1..Len(records) : records[k].module = None
       THEN /\ raised' = "AttributeError"
            /\ pc' = "crashed"
            /\ UNCHANGED exported
       ELSE /\ exported' = [k \in 1..Len(records) |-> NormalizedRecipe(records[k])]
            /\ pc' = "normalized"
            /\ UNCHANGED raised
    /\ UNCHANGED <<prog, files, i, records, errors, vocab>>
    /\ UNCHANGED <<file_vars, block_vars>>

\* recipe-extractor.py main, lines 415-416
RecipeVocabulary ==
    /\ prog = "recipes" /\ pc = "normalized"
    /\ vocab' = build_vocab(records)
    /\ pc' = "done"
    /\ UNCHANGED <<prog, files, i, records, errors, exported, raised>>
    /\ UNCHANGED <<file_vars, block_vars>>

Next ==
    \/ Vocabulary
    \/ SkipFile
    \/ ReadError
    \/ OpenFile
    \/ EndOfFile
    \/ Return
    \/ ModuleLine
    \/ OtherLine
    \/ ItemAbandoned
    \/ ItemOpened
    \/ ItemBlockLine
    \/ EmitItem
    \/ RecipeRejected
    \/ RecipeOpened
    \/ RecipeBlockLine
    \/ SubLine
    \/ SubClose
    \/ SubIndexError
    \/ EmitRecipe
    \/ ExportItems
    \/ ExportRecipes
    \/ RecipeVocabulary

Spec == Init /\ [][Next]_vars

-----------------------------------------------------------------------------
(* Facts about the open file, stated from its lines alone *)

BlankOrComment(l) == Strip(l) = <<>> \/ StartsWith(Strip(l), <<"/", "/">>)

RecipeHeaderNext ==
    prog = "recipes" /\ pc = "outer" /\ i < Len(lines) /\ IsRecipeLine(LineAt(lines, i))

ItemHeaderNext ==
    prog = "items" /\ pc = "outer" /\ i < Len(lines) /\ IsItemLine(LineAt(lines, i))

\* the line right after the header at index k is "{"
BraceRightAfter(k) ==
    k + 1 < Len(lines) /\ Strip(LineAt(lines, k + 1)) = <<"{">>

\* the first line after the header at index k that is neither blank nor a comment is "{"
BraceAfterTrivia(k) ==
    \E j \in (k + 1)..(Len(lines) - 1) :
        /\ Strip(LineAt(lines, j)) = <<"{">>
        /\ \A m \in (k + 1)..(j - 1) : BlankOrComment(LineAt(lines, m))

\* a module line lies before index k of the open file
ModuleSeenBefore(k) == \E m \in 0..(k - 1) : IsModuleLine(LineAt(lines, m))

-----------------------------------------------------------------------------
(* C1: whatever the files hold, parse_items and parse_recipes return: no *)
(* exception escapes the parser (IndexError of a section that is not     *)
(* closed before the end of the file, ValueError of a slot count).       *)
C1_BatchCompletes == ~(pc = "crashed" /\ raised \in {"IndexError", "ValueError"})

(* C2: when the block loop stops at the end of the file with the brace  *)
(* depth still above 0, no record is appended for the block.            *)
C2_TruncatedBlockNotEmitted ==
    [][(pc = "block" /\ i >= Len(lines) /\ brace_depth > 0) => records' = records]_vars

(* C3: for every emitted block the depth is 1 right after the opening   *)
(* brace, above 0 before every line consumed inside the block, and      *)
(* exactly 0 after the last line the block consumes.                    *)
C3_DepthOfEmittedBlock ==
    [][ /\ (pc = "outer" /\ pc' = "block") => brace_depth' = 1
        /\ (pc \in {"block", "sub"} /\ i' > i) => brace_depth > 0
        /\ (pc = "block" /\ pc' = "outer") => brace_depth = 0 ]_vars

(* C4: a craftrecipe header opens a block only when the very next line  *)
(* is "{"; otherwise one "Missing opening brace" error is appended, no  *)
(* record is emitted and the scan resumes at the next line.  An item    *)
(* header followed by blank or comment lines and then "{" opens a block *)
(* (a module being set).                                                *)
C4_StrictRecipeLenientItem ==
    [][ /\ (prog = "recipes" /\ pc = "outer" /\ pc' = "block")
              => RecipeHeaderNext /\ BraceRightAfter(i)
        /\ (RecipeHeaderNext /\ BraceRightAfter(i))
              => pc' = "block" /\ i' = i + 2 /\ errors' = errors
        /\ (RecipeHeaderNext /\ ~BraceRightAfter(i))
              => /\ Len(errors') = Len(errors) + 1
                 /\ SubSeq(errors', 1, Len(errors)) = errors
                 /\ errors'[Len(errors')].message = "Missing opening brace"
                 /\ errors'[Len(errors')].name = Words(Strip(LineAt(lines, i)))[2]
                 /\ records' = records
                 /\ pc' = "outer" /\ i' = i + 1
        /\ (ItemHeaderNext /\ BraceAfterTrivia(i) /\ current_module # None)
              => pc' = "block" /\ errors' = errors ]_vars

\* a recipe header with a blank and a comment line before its "{" was rejected
C4_Witness ==
    /\ prog = "recipes" /\ pc = "outer" /\ i >= 1 /\ i < Len(lines)
    /\ IsRecipeLine(LineAt(lines, i - 1))
    /\ BlankOrComment(LineAt(lines, i))
    /\ BraceAfterTrivia(i - 1)
    /\ records = <<>>
    /\ errors # <<>> /\ errors[Len(errors)].message = "Missing opening brace"

(* C5: an item header opens a block only when the next line that is     *)
(* neither blank nor a comment is "{" and a module line came before     *)
(* it in the file; otherwise it is dropped with no record and no error, *)
(* and the scan resumes at the next line.  Every error of parse_items   *)
(* is a file read error.                                                *)
C5_LenientItemSilentSkip ==
    [][ /\ (ItemHeaderNext /\ ~(BraceAfterTrivia(i) /\ ModuleSeenBefore(i)))
              => /\ records' = records /\ errors' = errors
                 /\ pc' = "outer" /\ i' = i + 1
        /\ (ItemHeaderNext /\ BraceAfterTrivia(i) /\ ModuleSeenBefore(i))
              => pc' = "block" /\ records' = records /\ errors' = errors
        /\ prog = "items"
              => \A k \in 1..Len(errors') :
                    /\ errors'[k].message = "File read error: IOError"
                    /\ ~files[CHOOSE f \in 1..Len(files) :
                                files[f].path = errors'[k].file_path].readable ]_vars

\* after a read error, a header with a module set, followed by a blank line and
\* then no "{", was dropped
C5_Witness ==
    /\ prog = "items" /\ pc = "outer" /\ i >= 1 /\ i < Len(lines)
    /\ IsItemLine(LineAt(lines, i - 1))
    /\ ModuleSeenBefore(i - 1)
    /\ BlankOrComment(LineAt(lines, i))
    /\ ~BraceAfterTrivia(i - 1)
    /\ records = <<>>
    /\ Len(errors) = 1 /\ errors[1].message = "File read error: IOError"

-----------------------------------------------------------------------------
(* What the specification says a "key = value" line yields *)

SpecKey(line) == Lower(Strip(SplitOnce(Strip(line), "=")[1]))

\* the right side, trimmed, less one trailing comma
SpecValue(line) ==
    LET v == Strip(SplitOnce(Strip(line), "=")[2]) IN
    IF v # <<>> /\ v[Len(v)] = "," THEN Strip(SubSeq(v, 1, Len(v) - 1)) ELSE v

(* C6: every property of an item or recipe block has the trimmed,       *)
(* lowercased text left of the first "=" as its key and the trimmed     *)
(* text right of it, less exactly one trailing comma and with its case  *)
(* kept, as its value.                                                  *)
C6_PropertyExtraction ==
    \A r \in 1..Len(records) :
        IF prog = "items"
        THEN \A k \in 1..Len(records[r].raw_properties) :
                LET p == records[r].raw_properties[k] IN
                p.key # None =>
                    /\ Lower(p.key) = SpecKey(p.original_line)
                    /\ p.value = SpecValue(p.original_line)
                    /\ SpecKey(p.original_line) \in DOMAIN records[r].effective_properties
        ELSE \A key \in DOMAIN records[r].effective_properties :
                \E k \in 1..Len(records[r].raw_lines) :
                    /\ Contains(records[r].raw_lines[k], "=")
                    /\ SpecKey(records[r].raw_lines[k]) = key
                    /\ SpecValue(records[r].raw_lines[k])
                           = records[r].effective_properties[key]

(* C7: no property of an emitted block has the empty string as its key, *)
(* in raw_properties, in effective_properties or in the export.         *)
C7_KeyNeverEmpty ==
    /\ \A r \in 1..Len(records) :
          /\ <<>> \notin DOMAIN records[r].effective_properties
          /\ prog = "items" =>
                \A k \in 1..Len(records[r].raw_properties) :
                    records[r].raw_properties[k].key # <<>>
    /\ \A r \in 1..Len(exported) : <<>> \notin DOMAIN exported[r].properties

\* digits with at most one "."
PlainNumeric(r) ==
    /\ \A k \in 1..Len(r) : r[k] \in Digits \/ r[k] = "."
    /\ \E k \in 1..Len(r) : r[k] \in Digits
    /\ Count(r, ".") <= 1

\* section 4.4: Number, else list of the ";"-separated tokens, else lowercased text
SpecNormalized(value) ==
    LET r == Strip(value) IN
    IF PlainNumeric(r) THEN Float(r)
    ELSE IF Contains(r, ";")
         THEN [tag |-> "StringList",
               list |-> LET parts == SelectSeq(SplitChar(r, ";"),
                                               LAMBDA t : Strip(t) # <<>>)
                        IN  [k \in 1..Len(parts) |-> Lower(Strip(parts[k]))]]
         ELSE [tag |-> "Text", text |-> Lower(r)]

(* C8: every exported property value, of items and of recipes, is the   *)
(* value of the parse tree normalized in the order Number, list, text.  *)
C8_NormalizationPriority ==
    \A r \in 1..Len(exported) :
        \A key \in DOMAIN exported[r].properties :
            exported[r].properties[key]
                = SpecNormalized(records[r].effective_properties[key])

\* the "[" of a bracketed list that stands alone: no tags, flags or mapper before it
StandaloneLists(line) ==
    {p \in 1..Len(line) :
        /\ line[p] = "["
        /\ p = 1 \/ ~IsNameChar(line[p - 1])
        /\ \E q \in (p + 2)..Len(line) : line[q] = "]"}

SpecItems(line) ==
    IF StandaloneLists(line) # {}
    THEN LET p == Min(StandaloneLists(line))
             q == Min({e \in (p + 1)..Len(line) : line[e] = "]"})
             parts == SelectSeq(SplitChar(SubSeq(line, p + 1, q - 1), ";"),
                                LAMBDA t : Strip(t) # <<>>)
         IN  [k \in 1..Len(parts) |-> Lower(Strip(parts[k]))]
    ELSE IF DirectMatches(line) # {} THEN <<Lower(DirectGroup(line))>> ELSE <<>>

AllSlots == Flatten([r \in 1..Len(records) |-> records[r].inputs \o records[r].outputs])

(* C9: the items of every slot come from the standalone bracketed list  *)
(* or, when there is none, from the token after "item <count>"; what    *)
(* tags[...], flags[...] or mapper[...] hold is never among them.       *)
C9_SlotItemsIndependent ==
    prog = "recipes" =>
        \A k \in 1..Len(AllSlots) : AllSlots[k].items = SpecItems(AllSlots[k].raw)

\* the brace depth after line k of a recipe's raw_lines
RECURSIVE DepthAtLine(_, _)
DepthAtLine(rawl, k) ==
    IF k = 0 THEN 1
    ELSE DepthAtLine(rawl, k - 1) + Count(rawl[k], "{") - Count(rawl[k], "}")

\* how often the property key t is written in the emitted records
KeyOccurrences(t) ==
    IF prog = "items"
    THEN Len(SelectSeq(
            Flatten([r \in 1..Len(records) |-> records[r].raw_properties]),
            LAMBDA p : p.key # None /\ Lower(p.key) = t))
    ELSE Len(SelectSeq(
            Flatten([r \in 1..Len(records) |->
                [k \in 1..Len(records[r].raw_lines) |->
                    IF /\ Contains(records[r].raw_lines[k], "=")
                       /\ DepthAtLine(records[r].raw_lines, k) = 1
                    THEN SpecKey(records[r].raw_lines[k]) ELSE None]]),
            LAMBDA key : key = t))

WrittenKeys ==
    IF prog = "items"
    THEN {Lower(p.key) : p \in {q \in UNION {{records[r].raw_properties[k] :
                    k \in 1..Len(records[r].raw_properties)} : r \in 1..Len(records)} :
                    q.key # None}}
    ELSE UNION {DOMAIN records[r].effective_properties : r \in 1..Len(records)}

PropertyCounts == IF prog = "items" THEN vocab
                  ELSE IF "properties" \in DOMAIN vocab THEN vocab["properties"]
                       ELSE EmptyDict

(* C10: after a full pass the vocabulary counts each token as often as  *)
(* it occurs in the emitted records: a key written twice in one block   *)
(* counts twice, a "key = value" line outside every emitted block       *)
(* counts zero.                                                         *)
C10_VocabularyCountsEmitted ==
    pc = "done" =>
        /\ DOMAIN PropertyCounts = WrittenKeys
        /\ \A t \in WrittenKeys : PropertyCounts[t] = KeyOccurrences(t)
        /\ prog = "recipes" =>
              \A c \in SlotCategories \cap DOMAIN vocab :
                  \A t \in DOMAIN vocab[c] :
                      vocab[c][t] = Len(SelectSeq(VocabTokens(records, c),
                                                  LAMBDA x : x = t))

-----------------------------------------------------------------------------
\* the file holds a header that its parser accepts: the first header with its
\* opening brace (and, for an item, with a module line before it)
HoldsAcceptableHeader(p, ls) ==
    \E k \in 0..(Len(ls) - 1) :
        IF p = "items"
        THEN /\ IsItemLine(LineAt(ls, k)) /\ ~IsModuleLine(LineAt(ls, k))
             /\ \E m \in 0..(k - 1) : IsModuleLine(LineAt(ls, m))
             /\ \E j \in (k + 1)..(Len(ls) - 1) :
                    /\ Strip(LineAt(ls, j)) = <<"{">>
                    /\ \A m \in (k + 1)..(j - 1) : BlankOrComment(LineAt(ls, m))
        ELSE /\ IsRecipeLine(LineAt(ls, k)) /\ ~IsModuleLine(LineAt(ls, k))
             /\ k + 1 < Len(ls) /\ Strip(LineAt(ls, k + 1)) = <<"{">>

(* C11: two emitted records with the same module and the same name that  *)
(* come from tuples with different mod identifiers have different        *)
(* identity strings, and once the parser has returned every readable     *)
(* input file that holds an accepted header has a record in the output.  *)
C11_IdentityUnique ==
    /\ \A a, b \in 1..Len(records) :
            (/\ records[a].module = records[b].module
             /\ records[a].name = records[b].name
             /\ records[a].mod_id # records[b].mod_id)
            => records[a].identity # records[b].identity
    /\ pc = "returned" =>
            \A f \in 1..Len(files) :
                (files[f].readable /\ HoldsAcceptableHeader(prog, files[f].content))
                => \E r \in 1..Len(records) : records[r].file_path = files[f].path

(* C12: inside an item or recipe block a line holding "=" that lies      *)
(* deeper than the top level of the block (depth 2 or more before and    *)
(* after the line) adds nothing to the properties of the block.          *)
C12_PropertyOnlyAtTopLevel ==
    [][(/\ pc = "block" /\ i < Len(lines) /\ brace_depth >= 2 /\ brace_depth' >= 2
        /\ i' = i + 1 /\ Contains(LineAt(lines, i), "="))
       => /\ effective' = effective
          /\ prog = "items" =>
                \A k \in (Len(raw) + 1)..Len(raw') : raw'[k].key = None]_vars

(* C13: in parse_recipes a nested inputs, outputs or itemmapper section  *)
(* leaves the depth of the recipe unchanged: its header and the line     *)
(* after it, every line of its body and its closing "}" are passed       *)
(* without a change of brace_depth, the closing "}" is consumed by the   *)
(* section, and no line of the section adds to the recipe's properties.  *)
C13_SectionKeepsDepth ==
    [][ /\ (pc = "block" /\ pc' = "sub")
            => brace_depth' = brace_depth /\ effective' = effective /\ i' = i + 2
        /\ (pc = "sub" /\ pc' = "sub")
            => brace_depth' = brace_depth /\ effective' = effective
        /\ (pc = "sub" /\ pc' = "block")
            => /\ brace_depth' = brace_depth /\ effective' = effective
               /\ Strip(LineAt(lines, i)) = <<"}">> /\ i' = i + 1 ]_vars

\* a recipe block at depth 1 right after the closing brace of an itemmapper
\* section that holds a "=" line, itself after an outputs section with a slot
C13_Witness ==
    /\ prog = "recipes" /\ pc = "block" /\ brace_depth = 1
    /\ i >= 1 /\ Strip(LineAt(lines, i - 1)) = <<"}">>
    /\ Len(outputs) = 1 /\ Len(mappers) = 1
    /\ DOMAIN mappers[1].mappings # {}
    /\ effective = EmptyDict

\* the second token of the module line at index k of the open file
ModuleToken(k) == Words(Strip(LineAt(lines, k)))[2]

(* C14: the module context is absent when a file is opened, becomes the  *)
(* second token of every module line scanned outside a block, and is     *)
(* changed by nothing else; a header that opens a block before any       *)
(* module line of its file does so with no module, which only a recipe   *)
(* header can; every emitted record carries the context of its header,   *)
(* taken from a module line of its own file, and an item always has one. *)
C14_ModuleContext ==
    [][ /\ (pc = "files" /\ pc' = "outer") => current_module' = None
        /\ (pc = "outer" /\ i' = i + 1 /\ IsModuleLine(LineAt(lines, i)))
            => current_module' = ModuleToken(i)
        /\ (pc = "outer" /\ i < Len(lines) /\ ~IsModuleLine(LineAt(lines, i)))
            => current_module' = current_module
        /\ pc \in {"block", "sub"} => current_module' = current_module
        /\ (pc = "outer" /\ pc' = "block")
            => /\ (\A m \in 0..(i - 1) : ~IsModuleLine(LineAt(lines, m)))
                    => current_module = None
               /\ prog = "items" => current_module # None
        /\ Len(records') > Len(records)
            => LET r == records'[Len(records')] IN
               /\ r.module = current_module
               /\ r.file_path = files[fidx].path
               /\ prog = "items" => r.module # None
               /\ r.module # None =>
                    \E m \in 0..(i - 1) :
                        IsModuleLine(LineAt(lines, m)) /\ ModuleToken(m) = r.module
      ]_vars

\* the third file of a list, read after a file that set the module M: its item
\* is emitted under N, the later of the two module lines before its header
C14_Witness ==
    /\ prog = "items" /\ Len(files) = 3 /\ fidx = 3 /\ pc = "outer"
    /\ Len(lines) >= 2 /\ lines[1] = L_moduleM /\ lines[2] = L_moduleN
    /\ Len(records) = 1 /\ records[1].module = <<"N">>

\* the place in the file list of the file a record comes from
FileIndexOf(r) == CHOOSE f \in 1..Len(files) : files[f].path = r.file_path

(* C15: in parse_items every iteration of the outer loop and of the      *)
(* block loop moves the scan index forward, and the index never moves    *)
(* back inside a file nor past its end, so the scan of a finite file     *)
(* ends and no line is consumed twice; the files are taken in the order  *)
(* of the list, and items are appended at the end of the record list.    *)
C15_ScanAdvances ==
    [][prog = "items" =>
            /\ (pc \in {"outer", "block"} /\ pc' \in {"outer", "block"}
                    /\ ~(pc = "block" /\ pc' = "outer"))
                => i' > i
            /\ pc \in {"outer", "block"} => i' >= i /\ i' <= Len(lines)
            /\ fidx' >= fidx
            /\ Len(records') > Len(records)
                => records' = Append(records, records'[Len(records')])
            /\ \A a, b \in 1..Len(records') :
                    a < b => FileIndexOf(records'[a]) <= FileIndexOf(records'[b])
         ]_vars

\* two items of one file in the order of their headers, the first with the
\* lines of its block, then an item of the next file
C15_Witness ==
    /\ prog = "items" /\ pc = "done" /\ Len(records) = 3
    /\ records[1].file_path = "c.txt" /\ Len(records[1].raw_properties) = 4
    /\ records[2].file_path = "c.txt" /\ Len(records[2].raw_properties) = 1
    /\ records[3].file_path = "d.txt"

====
